---- MODULE Spec2Model ----
(***************************************************************************)
(* Battleship rules engine: Ship, Gameboard, Player (with the computer's   *)
(* hunt/target algorithm) and the Game orchestrator with its DOM handlers. *)
(* Coordinates are integer pairs; a coordinate key "x,y" is modelled by    *)
(* the pair <<x, y>> (the string formatting is injective on integers and   *)
(* is never parsed back).  A ship object is identified by its index in the *)
(* ships list of the board it was placed on; null is 0 / <<>> / "null".    *)
(***************************************************************************)
EXTENDS Integers, Sequences, FiniteSets, TLC

\* ------------------------------------------------------------------------
\* Bounds of the model (not program constants)
\* ------------------------------------------------------------------------
MaxTurns == 3
MaxShips == 6
MaxTimers == 1
MaxTurnsSetup == 2
MaxTurnsEnd == 34
MaxScore == 18
MaxBoardShips == 2
MaxHits == 6

\* Cells that may be attacked on the board the computer hunts on.
MaxHuntAttacks == 5

\* ------------------------------------------------------------------------
\* Program constants
\* ------------------------------------------------------------------------
GRID_SIZE == 10

ShipTypeKeys == <<"carrier", "battleship", "cruiser", "submarine", "destroyer">>

SHIP_TYPES ==
  [k \in {"carrier", "battleship", "cruiser", "submarine", "destroyer"} |->
     CASE k = "carrier" -> 5
       [] k = "battleship" -> 4
       [] k = "cruiser" -> 3
       [] k = "submarine" -> 3
       [] k = "destroyer" -> 2]

Cells == (0..(GRID_SIZE - 1)) \X (0..(GRID_SIZE - 1))

\* ------------------------------------------------------------------------
\* Ship
\* ------------------------------------------------------------------------
Ship(typeKey) == [type |-> typeKey, length |-> SHIP_TYPES[typeKey], hits |-> 0]

\* A variant of hit without the cap at the ship's length (used to test that
\* C17_HitsAreCapped observes the cap).
hit_Uncapped(ship) == [ship EXCEPT !.hits = @ + 1]

hit(ship) == IF ship.hits < ship.length THEN [ship EXCEPT !.hits = @ + 1] ELSE ship

\* A variant of isSunk that reports a ship sunk one hit early (used to test
\* that C11_FirstAttackOutcome observes the outcome).
isSunk_OneShort(ship) == ship.hits >= ship.length - 1

isSunk(ship) == ship.hits >= ship.length

getHits(ship) == ship.hits

\* ------------------------------------------------------------------------
\* Gameboard
\* ------------------------------------------------------------------------
Gameboard == [grid |-> [c \in Cells |-> 0], attackedCoordinates |-> {}, ships |-> <<>>]

isValidCoordinate(x, y) == x >= 0 /\ x < GRID_SIZE /\ y >= 0 /\ y < GRID_SIZE

coordinateKey(x, y) == <<x, y>>

getShipAt(b, x, y) == IF ~isValidCoordinate(x, y) THEN 0 ELSE b.grid[<<x, y>>]

isAttacked(b, x, y) == coordinateKey(x, y) \in b.attackedCoordinates

\* A variant of FootprintCell with the two directions exchanged (used to test
\* that C13_PlacementFootprint observes the cells written).
FootprintCell_Swapped(x, y, orientation, i) ==
  << IF orientation = "horizontal" THEN x + i ELSE x,
     IF orientation = "vertical" THEN y + i ELSE y >>

\* The i-th cell (0-based) of the footprint of a ship anchored at (x, y).
FootprintCell(x, y, orientation, i) ==
  << IF orientation = "vertical" THEN x + i ELSE x,
     IF orientation = "horizontal" THEN y + i ELSE y >>

\* A variant of OverlapCheck that never finds a cell occupied (used to test
\* that C15_OverlapRejected observes the overlap test).
OverlapCheck_Never(b, c) == "ok"

\* Outcome of the overlap loop at one cell: reading grid[checkX] of a row
\* that does not exist throws a TypeError; a missing column reads undefined,
\* which is !== null and is reported as an overlap.
OverlapCheck(b, c) ==
  IF c[1] < 0 \/ c[1] >= GRID_SIZE THEN "TypeError"
  ELSE IF c[2] < 0 \/ c[2] >= GRID_SIZE THEN "Ships cannot overlap"
  ELSE IF b.grid[c] # 0 THEN "Ships cannot overlap"
  ELSE "ok"

\* placeShip: returns the board and the error thrown ("ok" when none).
placeShip(b, ship, x, y, orientation) ==
  LET len == ship.length
      bad == {i \in 0..(len - 1) : OverlapCheck(b, FootprintCell(x, y, orientation, i)) # "ok"}
      first == CHOOSE i \in bad : \A j \in bad : i <= j
      fp == {FootprintCell(x, y, orientation, i) : i \in 0..(len - 1)}
      id == Len(b.ships) + 1
  IN  IF orientation = "horizontal" /\ y + len > GRID_SIZE
        THEN [board |-> b, error |-> "Ship placement out of bounds"]
      ELSE IF orientation = "vertical" /\ x + len > GRID_SIZE
        THEN [board |-> b, error |-> "Ship placement out of bounds"]
      ELSE IF bad # {}
        THEN [board |-> b, error |-> OverlapCheck(b, FootprintCell(x, y, orientation, first))]
      ELSE [board |-> [b EXCEPT !.grid = [c \in Cells |-> IF c \in fp THEN id ELSE b.grid[c]],
                                !.ships = Append(b.ships, ship)],
            error |-> "ok"]

\* A variant of receiveAttack that records the coordinate before it validates
\* it (used to test that C4_OutOfBoundsWhilePlaying observes the boards).
receiveAttack_MarksFirst(b, x, y) ==
  [board |-> [b EXCEPT !.attackedCoordinates = @ \cup {coordinateKey(x, y)}],
   result |-> IF ~isValidCoordinate(x, y) THEN "Attack coordinates out of bounds"
              ELSE "already attacked"]

\* A variant of receiveAttack without the test for a duplicate attack (used
\* to test that C12_ReattackChangesNothing observes it).
receiveAttack_NoDuplicateCheck(b, x, y) ==
  IF ~isValidCoordinate(x, y)
    THEN [board |-> b, result |-> "Attack coordinates out of bounds"]
  ELSE IF b.grid[<<x, y>>] = 0
    THEN [board |-> [b EXCEPT !.attackedCoordinates = @ \cup {coordinateKey(x, y)}],
          result |-> "miss"]
  ELSE [board |-> [b EXCEPT !.attackedCoordinates = @ \cup {coordinateKey(x, y)},
                            !.ships[b.grid[<<x, y>>]] = hit(@)],
        result |-> "hit"]

\* receiveAttack: returns the board and the outcome (or the error thrown).
receiveAttack(b, x, y) ==
  IF ~isValidCoordinate(x, y)
    THEN [board |-> b, result |-> "Attack coordinates out of bounds"]
  ELSE IF coordinateKey(x, y) \in b.attackedCoordinates
    THEN [board |-> b, result |-> "already attacked"]
  ELSE LET marked == [b EXCEPT !.attackedCoordinates = @ \cup {coordinateKey(x, y)}]
           s == b.grid[<<x, y>>]
       IN  IF s = 0
             THEN [board |-> marked, result |-> "miss"]
           ELSE LET after == [marked EXCEPT !.ships[s] = hit(@)]
                IN  [board |-> after,
                     result |-> IF isSunk(after.ships[s]) THEN "sunk" ELSE "hit"]

\* A variant of allShipsSunk without the test for an empty ship list (used to
\* test that C16_AllShipsSunkIff observes it).
allShipsSunk_Vacuous(b) == \A i \in 1..Len(b.ships) : isSunk(b.ships[i])

allShipsSunk(b) ==
  Len(b.ships) > 0 /\ \A i \in 1..Len(b.ships) : isSunk(b.ships[i])

resetBoard(b) == Gameboard

\* ------------------------------------------------------------------------
\* Player
\* ------------------------------------------------------------------------
Player(type) ==
  [type |-> type, score |-> 0, lastHit |-> <<>>, targetQueue |-> <<>>,
   isHunting |-> FALSE, hitHistory |-> <<>>, huntDirection |-> <<>>]

\* Targets not yet attacked on the board, in queue order.
NotAttacked(q, b) == SelectSeq(q, LAMBDA c : ~isAttacked(b, c[1], c[2]))

\* A variant of getSurroundingCoordinates that leaves out the left neighbour
\* (used to test that C19_FirstHitSeedsNeighbours observes the queue).
getSurroundingCoordinates_NoLeft(x, y) ==
  SelectSeq(<< <<x - 1, y>>, <<x + 1, y>>, <<x, y + 1>> >>,
            LAMBDA c : c[1] >= 0 /\ c[1] < GRID_SIZE /\ c[2] >= 0 /\ c[2] < GRID_SIZE)

getSurroundingCoordinates(x, y) ==
  SelectSeq(<< <<x - 1, y>>, <<x + 1, y>>, <<x, y - 1>>, <<x, y + 1>> >>,
            LAMBDA c : c[1] >= 0 /\ c[1] < GRID_SIZE /\ c[2] >= 0 /\ c[2] < GRID_SIZE)

\* Walk from startHit along direction until the edge or an attacked cell.
RECURSIVE getDirectionalTargets(_, _, _)
getDirectionalTargets(startHit, direction, b) ==
  LET currentX == startHit[1] + direction[1]
      currentY == startHit[2] + direction[2]
  IN  IF currentX < 0 \/ currentX >= GRID_SIZE \/ currentY < 0 \/ currentY >= GRID_SIZE
        THEN <<>>
      ELSE IF isAttacked(b, currentX, currentY)
        THEN <<>>
      ELSE <<  <<currentX, currentY>> >> \o
           getDirectionalTargets(<<currentX, currentY>>, direction, b)

\* <<dx, dy>>, or <<>> when the two hits share neither coordinate.
determineDirection(hit1, hit2) ==
  IF hit1[1] = hit2[1] THEN (IF hit2[2] > hit1[2] THEN <<0, 1>> ELSE <<0, -1>>)
  ELSE IF hit1[2] = hit2[2] THEN (IF hit2[1] > hit1[1] THEN <<1, 0>> ELSE <<-1, 0>>)
  ELSE <<>>

\* The computer's targeting update after a "hit" at (x, y); gb is the board
\* after the attack.
OnHit(p, x, y, gb) ==
  LET currentHit == <<x, y>>
      hist == Append(p.hitHistory, currentHit)
      p1 == [p EXCEPT !.lastHit = currentHit, !.hitHistory = hist, !.isHunting = TRUE]
  IN  IF Len(hist) = 1
        THEN [p1 EXCEPT !.targetQueue = NotAttacked(getSurroundingCoordinates(x, y), gb)]
      ELSE IF Len(hist) = 2
        THEN LET direction == determineDirection(hist[1], hist[2])
             IN  IF direction # <<>>
                   THEN [p1 EXCEPT !.huntDirection = direction,
                                   !.targetQueue =
                                      NotAttacked(getDirectionalTargets(currentHit, direction, gb) \o
                                                  getDirectionalTargets(hist[1],
                                                     <<0 - direction[1], 0 - direction[2]>>, gb), gb)]
                   ELSE p1
      ELSE IF p.huntDirection # <<>>
        THEN [p1 EXCEPT !.targetQueue =
                NotAttacked(p.targetQueue \o getDirectionalTargets(currentHit, p.huntDirection, gb), gb)]
      ELSE p1

\* A variant of OnSunk that keeps the queue and the hunting flag (used to
\* test that C21_SunkClearsTargeting observes them).
OnSunk_KeepsQueue(p) ==
  [p EXCEPT !.lastHit = <<>>, !.hitHistory = <<>>, !.huntDirection = <<>>]

OnSunk(p) ==
  [p EXCEPT !.isHunting = FALSE, !.lastHit = <<>>, !.targetQueue = <<>>,
            !.hitHistory = <<>>, !.huntDirection = <<>>]

\* A variant of UpdateAI that drops the queue on a miss (used to test that
\* C28_MissKeepsTargeting observes the queue).
UpdateAI_ClearsOnMiss(p, x, y, r) ==
  IF p.type = "computer"
    THEN (IF r.result = "hit" THEN OnHit(p, x, y, r.board)
          ELSE IF r.result = "sunk" THEN OnSunk(p)
          ELSE IF r.result = "miss" THEN [p EXCEPT !.targetQueue = <<>>]
          ELSE p)
    ELSE p

\* A variant of UpdateAI without the test of the player's type (used to test
\* that C29_HumanHasNoTargeting observes human players).
UpdateAI_AnyType(p, x, y, r) ==
  IF r.result = "hit" THEN OnHit(p, x, y, r.board)
  ELSE IF r.result = "sunk" THEN OnSunk(p)
  ELSE p

\* The update of the AI state in makeAttack (computer players only); r is
\* what receiveAttack returned.
UpdateAI(p, x, y, r) ==
  IF p.type = "computer"
    THEN (IF r.result = "hit" THEN OnHit(p, x, y, r.board)
          ELSE IF r.result = "sunk" THEN OnSunk(p)
          ELSE p)
    ELSE p

\* A variant of AddScore that does not count the sinking attack (used to
\* test that C22_ScoreCountsHits observes 'sunk').
AddScore_HitOnly(p, result) ==
  IF result = "hit" THEN [p EXCEPT !.score = @ + 1] ELSE p

\* A variant of AddScore that scores every outcome (used to test that
\* C36_RepeatedAttackPasses observes the score).
AddScore_AnyOutcome(p, result) == [p EXCEPT !.score = @ + 1]

AddScore(p, result) ==
  IF result \in {"hit", "sunk"} THEN [p EXCEPT !.score = @ + 1] ELSE p

\* Player.makeAttack: the player and the board after the attack, and the
\* outcome.  An error thrown by receiveAttack propagates: the player is
\* untouched and the board is as receiveAttack left it.  The singleton set
\* binds the value returned by receiveAttack.
makeAttack(p, x, y, b) ==
  CHOOSE o \in
    {IF r.result = "Attack coordinates out of bounds"
       THEN [player |-> p, board |-> r.board, result |-> r.result]
       ELSE [player |-> AddScore(UpdateAI(p, x, y, r), r.result),
             board |-> r.board, result |-> r.result] :
     r \in {receiveAttack(b, x, y)}} : TRUE

\* A variant of generateAttack that does not drop the attacked targets from
\* the queue (used to test that C18_GeneratedIsUnattacked observes the filter).
generateAttack_NoFilter(p, b, rnd) ==
  IF p.type = "computer" /\ p.isHunting /\ Len(p.targetQueue) > 0
    THEN {[player |-> [p EXCEPT !.targetQueue = Tail(p.targetQueue)],
           x |-> Head(p.targetQueue)[1], y |-> Head(p.targetQueue)[2]]}
    ELSE {[player |-> p, x |-> c[1], y |-> c[2]] :
            c \in {d \in rnd : ~isAttacked(b, d[1], d[2])}}

\* Player.generateAttack: the set of possible outcomes [player, x, y].  rnd
\* is the set of cells the random generator may draw in the fallback loop,
\* which repeats until it draws an unattacked cell.
generateAttack(p, b, rnd) ==
  LET filtered == NotAttacked(p.targetQueue, b)
      smart == p.type = "computer" /\ p.isHunting /\ Len(p.targetQueue) > 0
      fallen == IF smart
                  THEN [p EXCEPT !.targetQueue = filtered, !.isHunting = FALSE,
                                 !.lastHit = <<>>, !.hitHistory = <<>>,
                                 !.huntDirection = <<>>]
                  ELSE p
  IN  IF smart /\ Len(filtered) > 0
        THEN {[player |-> [p EXCEPT !.targetQueue = Tail(filtered)],
               x |-> Head(filtered)[1], y |-> Head(filtered)[2]]}
      ELSE {[player |-> fallen, x |-> c[1], y |-> c[2]] :
              c \in {d \in rnd : ~isAttacked(b, d[1], d[2])}}

\* A variant of resetScore that leaves the target queue (used to test that
\* C7_ResetGameClears observes the targeting state).
resetScore_KeepsQueue(p) ==
  [p EXCEPT !.score = 0, !.lastHit = <<>>,
            !.isHunting = FALSE, !.hitHistory = <<>>, !.huntDirection = <<>>]

resetScore(p) ==
  [p EXCEPT !.score = 0, !.lastHit = <<>>, !.targetQueue = <<>>,
            !.isHunting = FALSE, !.hitHistory = <<>>, !.huntDirection = <<>>]

\* ------------------------------------------------------------------------
\* Game: state
\* ------------------------------------------------------------------------
VARIABLES
  player1, player2,            \* the two Player objects
  player1Board, player2Board,  \* the two Gameboard objects
  currentPlayer,               \* 1 or 2
  gameState,                   \* "not playing" or "playing"
  winner,                      \* 0 (null), 1 or 2
  turnCount,
  selectedShip,                \* "null" or the type key selected for placement
  isPlacingShip,
  currentOrientation,
  placedItems,                 \* type keys whose .ship-item carries class "placed"
  boardDisabled,               \* pointer events of player 2's grid are off
  timers,                      \* pending setTimeout callbacks of handleBoardAttack
  ret,                         \* the last operation, its arguments and its outcome
  lastAttacker,                \* history: who made the last completed attack since
                               \* construction or resetGame (0: nobody yet)
  staleTimers                  \* history: how many of the pending timers were
                               \* scheduled before the last resetGame

vars == <<player1, player2, player1Board, player2Board, currentPlayer, gameState,
          winner, turnCount, selectedShip, isPlacingShip, currentOrientation,
          placedItems, boardDisabled, timers, ret, lastAttacker, staleTimers>>

uiVars == <<selectedShip, isPlacingShip, currentOrientation, placedItems>>

PlayerTypes == {"human", "computer"}

AllTypeKeys == {ShipTypeKeys[i] : i \in 1..Len(ShipTypeKeys)}

Returned(op, x, y, result) == [op |-> op, x |-> x, y |-> y, result |-> result]

\* What receiveAttack returns (as opposed to the errors thrown).
Outcomes == {"miss", "hit", "sunk", "already attacked"}

\* The history of attackers after a call with the given result.
Attacker(result) == IF result \in Outcomes THEN currentPlayer ELSE lastAttacker

\* The part of the state that makeGameAttack reads and writes.
G ==
  [player1 |-> player1, player2 |-> player2,
   player1Board |-> player1Board, player2Board |-> player2Board,
   currentPlayer |-> currentPlayer, gameState |-> gameState,
   winner |-> winner, turnCount |-> turnCount, boardDisabled |-> boardDisabled]

SetGame(g) ==
  /\ player1' = g.player1
  /\ player2' = g.player2
  /\ player1Board' = g.player1Board
  /\ player2Board' = g.player2Board
  /\ currentPlayer' = g.currentPlayer
  /\ gameState' = g.gameState
  /\ winner' = g.winner
  /\ turnCount' = g.turnCount
  /\ boardDisabled' = g.boardDisabled

\* ------------------------------------------------------------------------
\* Game: turn management and attack coordination
\* ------------------------------------------------------------------------
\* A variant of switchTurns that forgets the turn counter (used to test that
\* C3_TurnAdvance observes it).
switchTurns_KeepsCount(g) ==
  [g EXCEPT !.currentPlayer = IF g.currentPlayer = 1 THEN 2 ELSE 1]

switchTurns(g) ==
  [g EXCEPT !.currentPlayer = IF g.currentPlayer = 1 THEN 2 ELSE 1,
            !.turnCount = @ + 1]

checkWinCondition(g) ==
  IF allShipsSunk(g.player1Board)
    THEN [g EXCEPT !.gameState = "not playing", !.winner = 2]
  ELSE IF allShipsSunk(g.player2Board)
    THEN [g EXCEPT !.gameState = "not playing", !.winner = 1]
  ELSE g

updateBoardInteractivity(g) ==
  [g EXCEPT !.boardDisabled = ~(g.gameState = "playing" /\ g.currentPlayer = 1)]

\* The current player object.
CurrentPlayerOf(g) == IF g.currentPlayer = 1 THEN g.player1 ELSE g.player2

\* A variant of opponentBoard that picks the current player's own board
\* (used to test that C9_AttackHitsOpponentOnly tells the boards apart).
opponentBoard_Own(g) == IF g.currentPlayer = 1 THEN "player1Board" ELSE "player2Board"

\* const opponentBoard = currentPlayer === player1 ? player2Board : player1Board;
\* the reference to the object is the name of the variable that holds it.
opponentBoard(g) == IF g.currentPlayer = 1 THEN "player2Board" ELSE "player1Board"

\* The game with the current player and the board referred to by ref as left
\* by the current player's makeAttack (both objects are mutated in place).
Attacked(g, a, ref) ==
  IF g.currentPlayer = 1
    THEN [g EXCEPT !.player1 = a.player, ![ref] = a.board]
    ELSE [g EXCEPT !.player2 = a.player, ![ref] = a.board]

\* gameState === 'playing' && switchTurns()
SwitchIfPlaying(g) == IF g.gameState = "playing" THEN switchTurns(g) ELSE g

\* makeGameAttack: the game after the call and the value returned (or the
\* message of the error thrown).  An error thrown by makeAttack propagates
\* before checkWinCondition, leaving the objects as makeAttack left them.
\* The singleton set binds the value returned by the player's makeAttack.
AttackAndCheck(g, x, y) ==
  CHOOSE o \in
    {IF a.result = "Attack coordinates out of bounds"
       THEN [g |-> Attacked(g, a, opponentBoard(g)), result |-> a.result]
       ELSE [g |-> updateBoardInteractivity(
                     SwitchIfPlaying(checkWinCondition(Attacked(g, a, opponentBoard(g))))),
             result |-> a.result] :
     a \in {makeAttack(CurrentPlayerOf(g), x, y, g[opponentBoard(g)])}} : TRUE

\* A variant of makeGameAttack without the check of the phase (used to test
\* that C5_NotPlayingRejected depends on it).
makeGameAttack_Unguarded(g, x, y) == AttackAndCheck(g, x, y)

makeGameAttack(g, x, y) ==
  IF g.gameState # "playing"
    THEN [g |-> g, result |-> "Game is not currently playing"]
  ELSE AttackAndCheck(g, x, y)

\* The game with the current player object replaced (generateAttack mutates
\* the player it is called on).
WithCurrentPlayer(g, p) ==
  IF g.currentPlayer = 1 THEN [g EXCEPT !.player1 = p] ELSE [g EXCEPT !.player2 = p]

\* generateComputerAttack: the possible outcomes [g, x, y, result].  The
\* coordinate is always generated against player 1's board.
generateComputerAttack(g, rnd) ==
  IF CurrentPlayerOf(g).type # "computer"
    THEN {[g |-> g, x |-> 0, y |-> 0, result |-> "Current player is not a computer"]}
  ELSE UNION {{[g |-> r.g, x |-> o.x, y |-> o.y, result |-> r.result] :
                 r \in {makeGameAttack(WithCurrentPlayer(g, o.player), o.x, o.y)}} :
              o \in generateAttack(CurrentPlayerOf(g), g.player1Board, rnd)}

\* ------------------------------------------------------------------------
\* Game: ship placement
\* ------------------------------------------------------------------------
\* A variant of isValidShipPlacement that does not scan the four corner cells
\* of the margin (used to test that C31_RandomFleetWellFormed observes
\* diagonal contact).
isValidShipPlacement_NoDiagonal(b, ship, x, y, orientation) ==
  \A i \in (0 - 1)..ship.length : \A j \in (0 - 1)..1 :
    LET checkX == IF orientation = "horizontal" THEN x + j ELSE x + i
        checkY == IF orientation = "horizontal" THEN y + i ELSE y + j
    IN  \/ checkX < 0 \/ checkX >= 10 \/ checkY < 0 \/ checkY >= 10
        \/ (i >= 0 /\ i < ship.length /\ j = 0)
        \/ ((i < 0 \/ i >= ship.length) /\ j # 0)
        \/ getShipAt(b, checkX, checkY) = 0

\* A variant of isValidShipPlacement that accepts no placement (used to test
\* that C32_PlacementLoopTerminates observes the candidates).
isValidShipPlacement_Never(b, ship, x, y, orientation) == FALSE

\* Cells of the 1-cell margin around the footprint (and the footprint itself)
\* are scanned; off-grid cells are skipped, the footprint's own cells are only
\* bounds-checked (which cannot fail after the skip), every other scanned cell
\* must hold no ship.
isValidShipPlacement(b, ship, x, y, orientation) ==
  \A i \in (0 - 1)..ship.length : \A j \in (0 - 1)..1 :
    LET checkX == IF orientation = "horizontal" THEN x + j ELSE x + i
        checkY == IF orientation = "horizontal" THEN y + i ELSE y + j
    IN  \/ checkX < 0 \/ checkX >= 10 \/ checkY < 0 \/ checkY >= 10
        \/ (orientation = "horizontal" /\ i >= 0 /\ i < ship.length /\ j = 0)
        \/ (orientation = "vertical" /\ j = 0 /\ i >= 0 /\ i < ship.length)
        \/ getShipAt(b, checkX, checkY) = 0

\* One iteration of the forEach of placeShipsRandomly: the boards the while
\* loop can end with when the random generator draws from cands.
PlaceOneRandomly(b, typeKey, cands) ==
  {placeShip(b, Ship(typeKey), c.row, c.col, c.orientation).board :
     c \in {d \in cands :
              /\ isValidShipPlacement(b, Ship(typeKey), d.row, d.col, d.orientation)
              /\ placeShip(b, Ship(typeKey), d.row, d.col, d.orientation).error = "ok"}}

RECURSIVE PlaceFrom(_, _, _)
PlaceFrom(b, k, cands) ==
  IF k > Len(ShipTypeKeys) THEN {b}
  ELSE UNION {PlaceFrom(nb, k + 1, cands) : nb \in PlaceOneRandomly(b, ShipTypeKeys[k], cands)}

placeShipsRandomly(b, cands) == PlaceFrom(b, 1, cands)

\* ------------------------------------------------------------------------
\* Game: operations and DOM handlers (one action each)
\* ------------------------------------------------------------------------
areAllShipsPlaced == Cardinality(placedItems) = Len(ShipTypeKeys)

\* initializeComputerShips: the boards player 2's board can become.
initializeComputerShips(b, cands) == placeShipsRandomly(resetBoard(b), cands)

\* startGame (also the click handler of #start-game); fleets are the boards
\* initializeComputerShips can produce (they do not depend on the board's
\* previous content, which resetBoard discards).
StartGame(fleets) ==
  IF ~areAllShipsPlaced
    THEN /\ ret' = Returned("startGame", 0, 0, "Please place all ships before starting the game")
         /\ UNCHANGED <<player1, player2, player1Board, player2Board, currentPlayer,
                        gameState, winner, turnCount, boardDisabled, timers, lastAttacker, staleTimers>>
         /\ UNCHANGED uiVars
    ELSE /\ gameState' = "playing"
         /\ currentPlayer' = 1
         /\ player2Board' \in fleets
         /\ boardDisabled' = FALSE
         /\ ret' = Returned("startGame", 0, 0, "ok")
         /\ UNCHANGED <<player1, player2, player1Board, winner, turnCount, timers, lastAttacker, staleTimers>>
         /\ UNCHANGED uiVars

\* resetGame (also the click handler of #reset-game).  Pending timers are
\* not cancelled.
ResetGame ==
  /\ gameState' = "not playing"
  /\ winner' = 0
  /\ currentPlayer' = 1
  /\ turnCount' = 0
  /\ player1Board' = resetBoard(player1Board)
  /\ player2Board' = resetBoard(player2Board)
  /\ selectedShip' = "null"
  /\ isPlacingShip' = FALSE
  /\ currentOrientation' = "horizontal"
  /\ player1' = resetScore(player1)
  /\ player2' = resetScore(player2)
  /\ placedItems' = {}
  /\ boardDisabled' = TRUE
  /\ ret' = Returned("resetGame", 0, 0, "ok")
  /\ lastAttacker' = 0
  /\ staleTimers' = timers
  /\ UNCHANGED timers

\* The caps of the model on the counters the program never bounds.
WithinBounds(limit) ==
  turnCount < limit /\ player1.score < MaxScore /\ player2.score < MaxScore

\* makeGameAttack called through the public API; limit caps turnCount.
MakeGameAttack(x, y, limit) ==
  /\ WithinBounds(limit)
  /\ \E r \in {makeGameAttack(G, x, y)} :
       /\ SetGame(r.g)
       /\ ret' = Returned("makeGameAttack", x, y, r.result)
       /\ lastAttacker' = Attacker(r.result)
       /\ UNCHANGED staleTimers
  /\ UNCHANGED timers
  /\ UNCHANGED uiVars

\* generateComputerAttack called through the public API.
GenerateComputerAttack(rnd, limit) ==
  /\ WithinBounds(limit)
  /\ \E r \in generateComputerAttack(G, rnd) :
       /\ SetGame(r.g)
       /\ ret' = Returned("generateComputerAttack", r.x, r.y, r.result)
       /\ lastAttacker' = Attacker(r.result)
       /\ UNCHANGED staleTimers
  /\ UNCHANGED timers
  /\ UNCHANGED uiVars

\* A click on cell (row, col) of player 2's grid: handleCellClick drops the
\* click on an attacked cell, otherwise handleBoardAttack runs and may
\* schedule the computer's reply.
HandleBoardAttack(row, col, limit) ==
  /\ WithinBounds(limit)
  /\ timers < MaxTimers
  /\ ~boardDisabled
  /\ ~isAttacked(player2Board, row, col)
  /\ IF gameState # "playing"
       THEN /\ ret' = Returned("handleBoardAttack", row, col, "Game is not currently playing")
            /\ UNCHANGED <<player1, player2, player1Board, player2Board, currentPlayer,
                           gameState, winner, turnCount, boardDisabled, timers, lastAttacker, staleTimers>>
       ELSE \E r \in {makeGameAttack(G, row, col)} :
              /\ SetGame(r.g)
              /\ ret' = Returned("handleBoardAttack", row, col, r.result)
              /\ lastAttacker' = Attacker(r.result)
              /\ UNCHANGED staleTimers
              /\ timers' = IF r.g.winner = 0 /\ CurrentPlayerOf(r.g).type = "computer"
                              /\ r.g.gameState = "playing"
                             THEN timers + 1 ELSE timers
  /\ UNCHANGED uiVars

\* The callback scheduled by handleBoardAttack fires.
ComputerTimer(rnd, limit) ==
  /\ timers > 0
  /\ WithinBounds(limit)
  /\ timers' = timers - 1
  /\ \E r \in generateComputerAttack(G, rnd) :
       /\ SetGame(r.g)
       /\ ret' = Returned("timer", r.x, r.y, r.result)
       /\ lastAttacker' = Attacker(r.result)
       /\ staleTimers' = IF staleTimers > 0 THEN staleTimers - 1 ELSE 0
  /\ UNCHANGED uiVars

\* shuffleShips (click handler of #shuffle-ships); fleets are the boards
\* placeShipsRandomly can produce from the reset board.
ShuffleShips(fleets) ==
  IF gameState # "not playing"
    THEN /\ ret' = Returned("shuffleShips", 0, 0, "ignored")
         /\ UNCHANGED <<player1, player2, player1Board, player2Board, currentPlayer,
                        gameState, winner, turnCount, boardDisabled, timers, lastAttacker, staleTimers>>
         /\ UNCHANGED uiVars
    ELSE /\ player1Board' \in fleets
         /\ selectedShip' = "null"
         /\ isPlacingShip' = FALSE
         /\ placedItems' = AllTypeKeys
         /\ ret' = Returned("shuffleShips", 0, 0, "ok")
         /\ UNCHANGED <<player1, player2, player2Board, currentPlayer, gameState,
                        winner, turnCount, boardDisabled, timers, currentOrientation,
                        lastAttacker, staleTimers>>

\* selectShipForPlacement (click handler of a .ship-item).
SelectShipForPlacement(typeKey) ==
  /\ selectedShip' = typeKey
  /\ isPlacingShip' = TRUE
  /\ ret' = Returned("selectShipForPlacement", 0, 0, "ok")
  /\ UNCHANGED <<player1, player2, player1Board, player2Board, currentPlayer,
                 gameState, winner, turnCount, boardDisabled, timers,
                 currentOrientation, placedItems, lastAttacker, staleTimers>>

\* rotateShip (click handler of #rotate-ship).
RotateShip ==
  /\ currentOrientation' = IF currentOrientation = "horizontal" THEN "vertical" ELSE "horizontal"
  /\ ret' = Returned("rotateShip", 0, 0, "ok")
  /\ UNCHANGED <<player1, player2, player1Board, player2Board, currentPlayer,
                 gameState, winner, turnCount, boardDisabled, timers,
                 selectedShip, isPlacingShip, placedItems, lastAttacker, staleTimers>>

\* handleShipPlacement: a click on cell (row, col) of player 1's grid.
HandleShipPlacement(row, col) ==
  /\ Len(player1Board.ships) < MaxShips
  /\ IF ~isPlacingShip \/ selectedShip = "null"
       THEN /\ ret' = Returned("handleShipPlacement", row, col, "ignored")
            /\ UNCHANGED <<player1Board, selectedShip, isPlacingShip, placedItems>>
       ELSE \E r \in {placeShip(player1Board, Ship(selectedShip), row, col, currentOrientation)} :
                /\ player1Board' = r.board
                /\ ret' = Returned("handleShipPlacement", row, col, r.error)
                /\ IF r.error = "ok"
                     THEN /\ placedItems' = placedItems \cup {selectedShip}
                          /\ selectedShip' = "null"
                          /\ isPlacingShip' = FALSE
                     ELSE UNCHANGED <<selectedShip, isPlacingShip, placedItems>>
  /\ UNCHANGED <<player1, player2, player2Board, currentPlayer, gameState, winner,
                 turnCount, boardDisabled, timers, currentOrientation, lastAttacker, staleTimers>>

\* ------------------------------------------------------------------------
\* Specification of the whole game with small input sets
\* ------------------------------------------------------------------------
Init ==
  /\ player1 \in {Player(t) : t \in PlayerTypes}
  /\ player2 \in {Player(t) : t \in PlayerTypes}
  /\ player1Board = Gameboard
  /\ player2Board = Gameboard
  /\ currentPlayer = 1
  /\ gameState = "not playing"
  /\ winner = 0
  /\ turnCount = 0
  /\ selectedShip = "null"
  /\ isPlacingShip = FALSE
  /\ currentOrientation = "horizontal"
  /\ placedItems = {}
  /\ boardDisabled = FALSE
  /\ timers = 0
  /\ ret = Returned("Game", 0, 0, "ok")
  /\ lastAttacker = 0
  /\ staleTimers = 0

\* Placements the random generator draws from.
RandomPlacements ==
  {[orientation |-> "horizontal", row |-> c[1], col |-> c[2]] :
     c \in {<<0, 0>>, <<0, 6>>, <<2, 0>>, <<2, 4>>, <<2, 8>>}}

\* Coordinates passed to makeGameAttack, two of them out of range.
AttackInputs == {<<0, 0>>, <<0, 1>>, <<1, 0>>, <<0 - 1, 0>>, <<10, 10>>}

\* Cells the user clicks on player 2's grid.
ClickCells == {<<0, 0>>, <<5, 5>>}

\* Cells the random generator draws in generateAttack.
RandomCells == {<<0, 0>>, <<1, 0>>, <<5, 5>>}

\* The fleets the random placement yields from a reset board.
RandomFleets == initializeComputerShips(Gameboard, RandomPlacements)

Next ==
  \/ StartGame(RandomFleets)
  \/ ResetGame
  \/ \E c \in AttackInputs : MakeGameAttack(c[1], c[2], MaxTurns)
  \/ GenerateComputerAttack(RandomCells, MaxTurns)
  \/ \E c \in ClickCells : HandleBoardAttack(c[1], c[2], MaxTurns)
  \/ ComputerTimer(RandomCells, MaxTurns)
  \/ ShuffleShips(RandomFleets)

Spec == Init /\ [][Next]_vars

\* ------------------------------------------------------------------------
\* Specification of manual ship placement (players as created by index.js)
\* ------------------------------------------------------------------------
InitSetup == Init /\ player1.type = "human" /\ player2.type = "computer"

\* The random fleets with the carrier drawn at (0,0) and the cruiser at (2,0).
SetupFleets == {f \in RandomFleets : f.grid[<<0, 0>>] = 1 /\ f.grid[<<2, 0>>] = 3}

\* The ship items the user clicks in the inventory.
SetupKinds == {"carrier", "destroyer"}

\* Cells of player 1's grid the user clicks to place the selected ship.
PlacementCells(typeKey) ==
  CASE typeKey = "carrier" -> {<<0, 0>>, <<9, 9>>}
    [] typeKey = "destroyer" -> {<<4, 0>>, <<4, 5>>}
    [] OTHER -> {<<0, 0>>}

SetupAttackInputs == {<<4, 5>>}

NextSetup ==
  \/ \E k \in SetupKinds : SelectShipForPlacement(k)
  \/ RotateShip
  \/ \E c \in PlacementCells(selectedShip) : HandleShipPlacement(c[1], c[2])
  \/ ShuffleShips(SetupFleets)
  \/ StartGame(SetupFleets)
  \/ ResetGame
  \/ \E c \in SetupAttackInputs : MakeGameAttack(c[1], c[2], MaxTurnsSetup)

SpecSetup == InitSetup /\ [][NextSetup]_vars

\* ------------------------------------------------------------------------
\* Specification of whole games played to the end (players of index.js)
\* ------------------------------------------------------------------------
\* The cells of the ships of SetupFleets, in the order the attackers sweep them.
SweepCells ==
  << <<0, 0>>, <<0, 1>>, <<0, 2>>, <<0, 3>>, <<0, 4>>,
     <<0, 6>>, <<0, 7>>, <<0, 8>>, <<0, 9>>,
     <<2, 0>>, <<2, 1>>, <<2, 2>>,
     <<2, 4>>, <<2, 5>>, <<2, 6>>,
     <<2, 8>>, <<2, 9>> >>

\* A cell that holds no ship in SetupFleets.
MissCells == << <<5, 5>> >>

\* The first cell of seq not yet attacked on board b (none when all are).
FirstUnattacked(seq, b) ==
  {seq[i] : i \in {k \in 1..Len(seq) :
                     /\ ~isAttacked(b, seq[k][1], seq[k][2])
                     /\ \A j \in 1..(k - 1) : isAttacked(b, seq[j][1], seq[j][2])}}

\* Coordinates the current player attacks next: both players sweep the ship
\* cells, and player 1 may also shoot at the empty cell.
EndInputs ==
  FirstUnattacked(SweepCells, G[opponentBoard(G)]) \cup
  (IF currentPlayer = 1 THEN FirstUnattacked(MissCells, player2Board) ELSE {})

NextEnd ==
  \/ ShuffleShips(SetupFleets)
  \/ StartGame(SetupFleets)
  \/ ResetGame
  \/ \E c \in EndInputs : MakeGameAttack(c[1], c[2], MaxTurnsEnd)

SpecEnd == InitSetup /\ [][NextEnd]_vars

\* ------------------------------------------------------------------------
\* Specification of the Ship and Gameboard objects used directly: the board is
\* the one getPlayer1Board() returns, the ship is one the caller created
\* ------------------------------------------------------------------------
\* What a direct call of placeShip leaves in ret.
ReturnedPlace(typeKey, x, y, orientation, result) ==
  [op |-> "placeShip", x |-> x, y |-> y, result |-> result,
   typeKey |-> typeKey, orientation |-> orientation]

\* What a call on the caller's own ship leaves in ret: the ship and the
\* number of calls of hit() made on it.
ReturnedShip(op, ship, calls) ==
  [op |-> op, x |-> 0, y |-> 0, result |-> "ok", ship |-> ship, calls |-> calls]

\* getPlayer1Board().placeShip(Ship(typeKey), x, y, orientation)
BoardPlaceShip(typeKey, x, y, orientation) ==
  /\ Len(player1Board.ships) < MaxBoardShips
  /\ \E r \in {placeShip(player1Board, Ship(typeKey), x, y, orientation)} :
       /\ player1Board' = r.board
       /\ ret' = ReturnedPlace(typeKey, x, y, orientation, r.error)
  /\ UNCHANGED <<player1, player2, player2Board, currentPlayer, gameState, winner,
                 turnCount, boardDisabled, timers, lastAttacker, staleTimers>>
  /\ UNCHANGED uiVars

\* getPlayer1Board().receiveAttack(x, y)
BoardReceiveAttack(x, y) ==
  /\ \E r \in {receiveAttack(player1Board, x, y)} :
       /\ player1Board' = r.board
       /\ ret' = Returned("receiveAttack", x, y, r.result)
  /\ UNCHANGED <<player1, player2, player2Board, currentPlayer, gameState, winner,
                 turnCount, boardDisabled, timers, lastAttacker, staleTimers>>
  /\ UNCHANGED uiVars

\* getPlayer1Board().resetBoard()
BoardReset ==
  /\ player1Board' = resetBoard(player1Board)
  /\ ret' = Returned("resetBoard", 0, 0, "ok")
  /\ UNCHANGED <<player1, player2, player2Board, currentPlayer, gameState, winner,
                 turnCount, boardDisabled, timers, lastAttacker, staleTimers>>
  /\ UNCHANGED uiVars

\* const ship = Ship(typeKey).  A ship on its own does not depend on any
\* board: to keep the state space small it is exercised beside boards that
\* hold fewer than MaxBoardShips - 1 ships.
ShipCreate(typeKey) ==
  /\ Len(player1Board.ships) < MaxBoardShips - 1
  /\ ret' = ReturnedShip("Ship", Ship(typeKey), 0)
  /\ UNCHANGED <<player1, player2, player1Board, player2Board, currentPlayer, gameState,
                 winner, turnCount, boardDisabled, timers, lastAttacker, staleTimers>>
  /\ UNCHANGED uiVars

\* ship.hit() on the ship created last
ShipHit ==
  /\ ret.op \in {"Ship", "hit"}
  /\ ret.calls < MaxHits
  /\ ret' = ReturnedShip("hit", hit(ret.ship), ret.calls + 1)
  /\ UNCHANGED <<player1, player2, player1Board, player2Board, currentPlayer, gameState,
                 winner, turnCount, boardDisabled, timers, lastAttacker, staleTimers>>
  /\ UNCHANGED uiVars

\* The ship kinds, anchors and orientations passed to placeShip.
BoardKinds == {"destroyer", "cruiser"}

BoardAnchors == {<<0, 0>>, <<0, 1>>, <<0 - 1, 0>>, <<0, 0 - 1>>, <<10, 0>>, <<0, 9>>}

Orientations == {"horizontal", "vertical"}

\* The coordinates passed to receiveAttack.
BoardAttackInputs == {<<0, 0>>, <<0, 1>>, <<0, 2>>}

NextBoard ==
  \/ \E k \in BoardKinds, c \in BoardAnchors, o \in Orientations :
       BoardPlaceShip(k, c[1], c[2], o)
  \/ \E c \in BoardAttackInputs : BoardReceiveAttack(c[1], c[2])
  \/ BoardReset
  \/ \E k \in AllTypeKeys : ShipCreate(k)
  \/ ShipHit

SpecBoard == InitSetup /\ [][NextBoard]_vars

\* ------------------------------------------------------------------------
\* The computer player used on its own: player 2 attacks player 1's board
\* through Player.makeAttack and Player.generateAttack
\* (game.getPlayer2(), game.getPlayer1Board()).
\* ------------------------------------------------------------------------
\* getPlayer1Board().placeShip(...) for the two ships of a small fleet.
HuntPlaceFleet(b) ==
  /\ Len(player1Board.ships) = 0
  /\ player1Board.attackedCoordinates = {}
  /\ player1Board' = b
  /\ ret' = Returned("placeShip", 0, 0, "ok")
  /\ UNCHANGED <<player1, player2, player2Board, currentPlayer, gameState, winner,
                 turnCount, boardDisabled, timers, lastAttacker, staleTimers>>
  /\ UNCHANGED uiVars

\* getPlayer2().makeAttack(x, y, getPlayer1Board())
HuntMakeAttack(x, y) ==
  /\ Cardinality(player1Board.attackedCoordinates) < MaxHuntAttacks
  /\ \E r \in {makeAttack(player2, x, y, player1Board)} :
       /\ player2' = r.player
       /\ player1Board' = r.board
       /\ ret' = Returned("makeAttack", x, y, r.result)
  /\ UNCHANGED <<player1, player2Board, currentPlayer, gameState, winner,
                 turnCount, boardDisabled, timers, lastAttacker, staleTimers>>
  /\ UNCHANGED uiVars

\* const { x, y } = getPlayer2().generateAttack(getPlayer1Board())
HuntGenerateAttack(rnd) ==
  /\ \E o \in generateAttack(player2, player1Board, rnd) :
       /\ player2' = o.player
       /\ ret' = Returned("generateAttack", o.x, o.y, "ok")
  /\ UNCHANGED <<player1, player1Board, player2Board, currentPlayer, gameState, winner,
                 turnCount, boardDisabled, timers, lastAttacker, staleTimers>>
  /\ UNCHANGED uiVars

\* getPlayer2().resetScore()
HuntResetScore ==
  /\ player2' = resetScore(player2)
  /\ ret' = Returned("resetScore", 0, 0, "ok")
  /\ UNCHANGED <<player1, player1Board, player2Board, currentPlayer, gameState, winner,
                 turnCount, boardDisabled, timers, lastAttacker, staleTimers>>
  /\ UNCHANGED uiVars

\* A cruiser or a carrier in row 5 and a destroyer in the corner.
HuntFleet(typeKey, col) ==
  placeShip(placeShip(Gameboard, Ship(typeKey), 5, col, "horizontal").board,
            Ship("destroyer"), 0, 0, "horizontal").board

HuntFleets == {HuntFleet("cruiser", 4), HuntFleet("carrier", 3)}

\* Coordinates passed to makeAttack by hand, one of them out of range.
HuntAttackInputs == {<<5, 5>>, <<5, 6>>, <<4, 5>>, <<0, 0>>, <<0, 1>>, <<10, 0>>}

\* Cells the random generator may draw.
HuntRandomCells == {<<5, 5>>, <<0, 0>>, <<9, 9>>}

NextHunt ==
  \/ \E b \in HuntFleets : HuntPlaceFleet(b)
  \/ \E c \in HuntAttackInputs : HuntMakeAttack(c[1], c[2])
  \/ (ret.op = "generateAttack" /\ HuntMakeAttack(ret.x, ret.y))
  \/ HuntGenerateAttack(HuntRandomCells)
  \/ HuntResetScore

SpecHunt == InitSetup /\ [][NextHunt]_vars

\* The same calls made on a human player 2:
\* Game(Player('Player 1', 'human'), Player('Player 2', 'human')).
InitHuman == Init /\ player1.type = "human" /\ player2.type = "human"

SpecHuman == InitHuman /\ [][NextHunt]_vars

\* ------------------------------------------------------------------------
\* shuffleShips step by step: resetBoard and resetShipInventory, then the
\* iterations of the while loop of placeShipsRandomly (the ship the forEach
\* is at is the one after the ships already on the board), then
\* markAllShipsAsPlaced.  ret.op tells where the handler is.
\* ------------------------------------------------------------------------
PlacingOps == {"resetBoard", "placeShip"}

\* shuffleShips up to the call of placeShipsRandomly.
ShuffleBegin ==
  /\ ret.op \notin PlacingOps
  /\ gameState = "not playing"
  /\ player1Board' = resetBoard(player1Board)
  /\ placedItems' = {}
  /\ selectedShip' = "null"
  /\ isPlacingShip' = FALSE
  /\ ret' = Returned("resetBoard", 0, 0, "ok")
  /\ UNCHANGED <<player1, player2, player2Board, currentPlayer, gameState, winner,
                 turnCount, boardDisabled, timers, currentOrientation, lastAttacker,
                 staleTimers>>

\* One iteration of the while loop: the generator drew c.
PlaceTry(c) ==
  /\ ret.op \in PlacingOps
  /\ Len(player1Board.ships) < Len(ShipTypeKeys)
  /\ \E typeKey \in {ShipTypeKeys[Len(player1Board.ships) + 1]} :
       IF isValidShipPlacement(player1Board, Ship(typeKey), c.row, c.col, c.orientation)
         THEN \E r \in {placeShip(player1Board, Ship(typeKey), c.row, c.col, c.orientation)} :
                /\ player1Board' = r.board
                /\ ret' = ReturnedPlace(typeKey, c.row, c.col, c.orientation, r.error)
         ELSE /\ player1Board' = player1Board
              /\ ret' = ReturnedPlace(typeKey, c.row, c.col, c.orientation, "rejected")
  /\ UNCHANGED <<player1, player2, player2Board, currentPlayer, gameState, winner,
                 turnCount, boardDisabled, timers, lastAttacker, staleTimers>>
  /\ UNCHANGED uiVars

\* The iteration that places a ship.
PlaceTrySucceeds(c) == PlaceTry(c) /\ player1Board' # player1Board

\* placeShipsRandomly has returned: markAllShipsAsPlaced.
ShuffleEnd ==
  /\ ret.op \in PlacingOps
  /\ Len(player1Board.ships) = Len(ShipTypeKeys)
  /\ placedItems' = AllTypeKeys
  /\ ret' = Returned("shuffleShips", 0, 0, "ok")
  /\ UNCHANGED <<player1, player2, player1Board, player2Board, currentPlayer, gameState,
                 winner, turnCount, boardDisabled, timers, selectedShip, isPlacingShip,
                 currentOrientation, lastAttacker, staleTimers>>

\* The draws of the random generator that are followed.
PlaceAnchors == {<<0, 0>>, <<1, 5>>, <<4, 2>>, <<9, 0>>}

PlaceCandidates ==
  {[orientation |-> o, row |-> a[1], col |-> a[2]] : o \in Orientations, a \in PlaceAnchors}

\* Every draw the generator can make.
AllPlacements ==
  {[orientation |-> o, row |-> x, col |-> y] :
     o \in Orientations, x \in 0..(GRID_SIZE - 1), y \in 0..(GRID_SIZE - 1)}

\* The draw c passes the bounds, overlap and adjacency checks for a ship of
\* the kind typeKey on board b.
Passes(b, typeKey, c) ==
  /\ isValidShipPlacement(b, Ship(typeKey), c.row, c.col, c.orientation)
  /\ \A i \in 0..(SHIP_TYPES[typeKey] - 1) :
       /\ FootprintCell(c.row, c.col, c.orientation, i) \in Cells
       /\ b.grid[FootprintCell(c.row, c.col, c.orientation, i)] = 0

\* A draw that places the next ship on board b, if there is one.
PassingDraw(b) ==
  IF Len(b.ships) < Len(ShipTypeKeys)
       /\ \E c \in AllPlacements : Passes(b, ShipTypeKeys[Len(b.ships) + 1], c)
    THEN {CHOOSE c \in AllPlacements : Passes(b, ShipTypeKeys[Len(b.ships) + 1], c)}
    ELSE {}

\* The draws followed are those of PlaceCandidates and one that passes.
NextPlace ==
  \/ ShuffleBegin
  \/ \E c \in PlaceCandidates : PlaceTry(c)
  \/ \E c \in PassingDraw(player1Board) : PlaceTry(c)
  \/ ShuffleEnd

SpecPlace == InitSetup /\ [][NextPlace]_vars

\* The random generator is fair: when a draw that places the ship is possible
\* again and again, one is eventually made.
SpecPlaceFair ==
  /\ SpecPlace
  /\ SF_vars(\E c \in PlaceCandidates \cup PassingDraw(player1Board) : PlaceTrySucceeds(c))
  /\ WF_vars(ShuffleEnd)

\* ------------------------------------------------------------------------
\* Specification of a game played to a full board: the computer draws the
\* cells of player 1's board in a fixed order, the human repeats one cell
\* ------------------------------------------------------------------------
MaxTurnsSweep == 201

\* The order of the computer's random draws: row 4 first, then rows 5 to 9
\* and 0 to 3, each from column 0 to column 9.
SweepOrder ==
  [i \in 1..(GRID_SIZE * GRID_SIZE) |->
     <<(4 + ((i - 1) \div GRID_SIZE)) % GRID_SIZE, (i - 1) % GRID_SIZE>>]

\* The random fleet both boards receive: cells (4,0), (4,1) and (5,5) are empty.
SweepFleet ==
  CHOOSE f \in SetupFleets :
    f.grid[<<4, 0>>] = 0 /\ f.grid[<<4, 1>>] = 0 /\ f.grid[<<5, 5>>] = 0

\* The coordinate the human attacks on every turn.
SweepHumanInputs == IF currentPlayer = 1 THEN {<<5, 5>>} ELSE {}

\* The user clicks cell (4,0) of player 1's grid when the computer has shot
\* at (4,0) and (4,1) and not yet at (4,2).
SweepClicks ==
  IF /\ isAttacked(player1Board, 4, 0) /\ isAttacked(player1Board, 4, 1)
     /\ ~isAttacked(player1Board, 4, 2)
    THEN {<<4, 0>>} ELSE {}

\* The user sets the fleet up and starts the game before the first attack,
\* and selects the destroyer when about to click the grid.
NextSweep ==
  \/ (gameState = "not playing" /\ ShuffleShips({SweepFleet}))
  \/ (gameState = "not playing" /\ StartGame({SweepFleet}))
  \/ (SweepClicks # {} /\ SelectShipForPlacement("destroyer"))
  \/ \E c \in SweepClicks : HandleShipPlacement(c[1], c[2])
  \/ \E c \in SweepHumanInputs : MakeGameAttack(c[1], c[2], MaxTurnsSweep)
  \/ GenerateComputerAttack(FirstUnattacked(SweepOrder, player1Board), MaxTurnsSweep)

SpecSweep == InitSetup /\ [][NextSweep]_vars

\* ------------------------------------------------------------------------
\* Properties
\* ------------------------------------------------------------------------
\* The operations that run makeGameAttack.
AttackOps == {"makeGameAttack", "generateComputerAttack", "handleBoardAttack", "timer"}

\* The board attacked by the player who is current in g.
OpponentBoardOf(cp, b1, b2) == IF cp = 1 THEN b2 ELSE b1

\* C1: whenever an attack call ends the game (playing -> not playing), the
\* winner recorded is the player who made the attack, the board that is
\* all sunk is the board of that player's opponent, and the current player
\* is not advanced by the call.
C1_WinnerIsAttacker ==
  [][(ret'.op \in AttackOps /\ gameState = "playing" /\ gameState' = "not playing")
       => /\ winner' = currentPlayer
          /\ allShipsSunk(OpponentBoardOf(currentPlayer, player1Board', player2Board'))
          /\ currentPlayer' = currentPlayer]_vars

\* C2: in every reachable state the playing phase has no winner, and once a
\* winner is set only resetGame lets the phase leave 'not playing'.
C2_PlayingHasNoWinner ==
  /\ [](gameState = "playing" => winner = 0)
  /\ [][(winner # 0 /\ ret'.op # "resetGame") => gameState' = "not playing"]_vars

\* C3: an attack call that returns an outcome and leaves the game playing
\* switches the current player and adds exactly 1 to turnCount; one that
\* ends the game changes neither.
C3_TurnAdvance ==
  [][(ret'.op \in AttackOps /\ ret'.result \in Outcomes /\ gameState = "playing")
       => IF gameState' = "playing"
            THEN currentPlayer' = 3 - currentPlayer /\ turnCount' = turnCount + 1
            ELSE currentPlayer' = currentPlayer /\ turnCount' = turnCount]_vars

\* C3 witness: an attack that sank the last ship has just ended a game in
\* which turns had advanced.
C3_GameEndingAttack ==
  /\ ret.op = "makeGameAttack" /\ ret.result = "sunk"
  /\ gameState = "not playing" /\ winner = 1 /\ currentPlayer = 1
  /\ allShipsSunk(player2Board) /\ turnCount > 0

\* The state of the game an attack may touch.
gameVars ==
  <<player1, player2, player1Board, player2Board, currentPlayer, gameState, winner,
    turnCount>>

\* receiveAttack on these coordinates throws the out-of-bounds error on both
\* boards and leaves them as they are.
ReceiveAttackRejects(x, y) ==
  \A b \in {player1Board, player2Board} :
    receiveAttack(b, x, y) = [board |-> b, result |-> "Attack coordinates out of bounds"]

\* C4 as stated: an attack on out-of-range coordinates always fails with the
\* out-of-bounds error, at receiveAttack and through makeGameAttack, and
\* changes nothing.
C4_OutOfBoundsAlways ==
  [][(ret'.op = "makeGameAttack" /\ ~isValidCoordinate(ret'.x, ret'.y))
       => /\ ret'.result = "Attack coordinates out of bounds"
          /\ ReceiveAttackRejects(ret'.x, ret'.y)
          /\ UNCHANGED gameVars]_vars

\* C4 amended: an attack on out-of-range coordinates fails with the
\* out-of-bounds error at receiveAttack, and through makeGameAttack while
\* the game is playing; while it is not playing makeGameAttack fails with
\* 'Game is not currently playing' instead.  In both cases nothing changes.
C4_OutOfBoundsWhilePlaying ==
  [][(ret'.op = "makeGameAttack" /\ ~isValidCoordinate(ret'.x, ret'.y))
       => /\ ret'.result = IF gameState = "playing"
                             THEN "Attack coordinates out of bounds"
                             ELSE "Game is not currently playing"
          /\ ReceiveAttackRejects(ret'.x, ret'.y)
          /\ UNCHANGED gameVars]_vars

\* C4 witness: an out-of-range attack was rejected in the middle of a game.
C4_RejectedMidGame ==
  /\ ret.op = "makeGameAttack" /\ ~isValidCoordinate(ret.x, ret.y)
  /\ ret.result = "Attack coordinates out of bounds"
  /\ gameState = "playing" /\ turnCount > 0
  /\ player1Board.attackedCoordinates # {} /\ player2Board.attackedCoordinates # {}

\* C5: makeGameAttack called while the phase is not 'playing' fails with
\* 'Game is not currently playing' and changes no board, ship, score,
\* targeting state, currentPlayer, turnCount or winner.
C5_NotPlayingRejected ==
  [][(ret'.op = "makeGameAttack" /\ gameState # "playing")
       => /\ ret'.result = "Game is not currently playing"
          /\ UNCHANGED gameVars]_vars

\* C5 witness: makeGameAttack was rejected after a win.
C5_RejectedAfterWin ==
  /\ ret.op = "makeGameAttack" /\ ret.result = "Game is not currently playing"
  /\ gameState = "not playing" /\ winner # 0

\* A board holds each of the five ship kinds exactly once.
CompleteFleet(b) ==
  /\ Len(b.ships) = Len(ShipTypeKeys)
  /\ \A k \in AllTypeKeys : Cardinality({i \in 1..Len(b.ships) : b.ships[i].type = k}) = 1

\* C6: right after startGame the game is playing only if both boards hold
\* each of the five ship kinds exactly once; a refused start leaves the
\* phase as it was.
C6_StartNeedsCompleteFleets ==
  ret.op = "startGame"
    => IF ret.result = "ok"
         THEN gameState = "playing" /\ CompleteFleet(player1Board) /\ CompleteFleet(player2Board)
         ELSE gameState = "not playing"

\* The targeting state of a player is cleared and its score is 0.
PlayerCleared(p) ==
  /\ p.score = 0 /\ ~p.isHunting /\ p.targetQueue = <<>> /\ p.hitHistory = <<>>
  /\ p.huntDirection = <<>> /\ p.lastHit = <<>>

\* No cell of the board holds a ship and no coordinate is attacked.
BoardCleared(b) ==
  /\ \A c \in Cells : getShipAt(b, c[1], c[2]) = 0
  /\ b.attackedCoordinates = {}

\* C7: resetGame yields turnCount 0, phase 'not playing', no winner, player 1
\* current, both boards without ships and attacked coordinates, both scores
\* 0 and the targeting state of both players cleared.
C7_ResetGameClears ==
  ret.op = "resetGame"
    => /\ turnCount = 0 /\ gameState = "not playing" /\ winner = 0 /\ currentPlayer = 1
       /\ BoardCleared(player1Board) /\ BoardCleared(player2Board)
       /\ PlayerCleared(player1) /\ PlayerCleared(player2)

\* C7 witness: resetGame ran while the computer's reply to an attack of the
\* user was still pending, that is after a start, an attack and a turn advance.
C7_ResetMidGame ==
  ret.op = "resetGame" /\ timers > 0 /\ player2.type = "computer"

\* C8: of two consecutive completed attacks the attackers differ, and an
\* attack completes only while the game is playing.
C8_StrictAlternation ==
  [][(ret'.op \in AttackOps /\ ret'.result \in Outcomes)
       => /\ gameState = "playing"
          /\ lastAttacker # currentPlayer]_vars

\* C9: an attack is applied to the board of the current player's opponent
\* only: that board becomes what receiveAttack makes of it at the attacked
\* coordinate, which is then recorded on it, and the current player's own
\* board is unchanged.
C9_AttackHitsOpponentOnly ==
  [][(ret'.op \in AttackOps /\ ret'.result \in Outcomes)
       => IF currentPlayer = 1
            THEN /\ player1Board' = player1Board
                 /\ player2Board' = receiveAttack(player2Board, ret'.x, ret'.y).board
                 /\ isAttacked(player2Board', ret'.x, ret'.y)
            ELSE /\ player2Board' = player2Board
                 /\ player1Board' = receiveAttack(player1Board, ret'.x, ret'.y).board
                 /\ isAttacked(player1Board', ret'.x, ret'.y)]_vars

\* C9 witness: player 2 has hit a ship of player 1 at a coordinate that is
\* not attacked on player 2's own board.
C9_Player2HitPlayer1 ==
  /\ ret.op = "makeGameAttack" /\ ret.result = "hit" /\ lastAttacker = 2
  /\ isAttacked(player1Board, ret.x, ret.y)
  /\ ~isAttacked(player2Board, ret.x, ret.y)
  /\ player2Board.ships # <<>>

\* C10: a successful startGame places a fleet on player 2's board only if
\* that board holds no ship and player 2 is a computer; otherwise it leaves
\* the board's ships and attacked set unchanged.
C10_AutoPlacementOnlyWhenEmpty ==
  [][(ret'.op = "startGame" /\ ret'.result = "ok"
        /\ ~(Len(player2Board.ships) = 0 /\ player2.type = "computer"))
       => player2Board' = player2Board]_vars

\* What the first attack on the in-range cell (x, y) of board b must leave:
\* nb is the board after it, result the value returned.
FirstAttackPost(b, nb, x, y, result) ==
  /\ nb.attackedCoordinates = b.attackedCoordinates \cup {<<x, y>>}
  /\ nb.grid = b.grid
  /\ Len(nb.ships) = Len(b.ships)
  /\ IF b.grid[<<x, y>>] = 0
       THEN result = "miss" /\ nb.ships = b.ships
       ELSE /\ nb.ships[b.grid[<<x, y>>]].hits = b.ships[b.grid[<<x, y>>]].hits + 1
            /\ \A i \in 1..Len(b.ships) : i # b.grid[<<x, y>>] => nb.ships[i] = b.ships[i]
            /\ result = IF nb.ships[b.grid[<<x, y>>]].hits = nb.ships[b.grid[<<x, y>>]].length
                          THEN "sunk" ELSE "hit"

\* C11: the first attack on an in-range cell records the coordinate as
\* attacked and returns 'miss' if no ship occupies the cell; otherwise it
\* adds exactly one hit to the occupying ship (and to no other) and returns
\* 'sunk' if that hit was the ship's last, else 'hit'.
C11_FirstAttackOutcome ==
  [][(ret'.op = "receiveAttack" /\ isValidCoordinate(ret'.x, ret'.y)
        /\ ~isAttacked(player1Board, ret'.x, ret'.y))
       => FirstAttackPost(player1Board, player1Board', ret'.x, ret'.y, ret'.result)]_vars

\* C11 witness: an attack has sunk one of two ships, the other being hit but
\* afloat.
C11_SunkOneOfTwo ==
  /\ ret.op = "receiveAttack" /\ ret.result = "sunk"
  /\ Len(player1Board.ships) = 2
  /\ \E i \in 1..2 : player1Board.ships[i].hits > 0
                     /\ player1Board.ships[i].hits < player1Board.ships[i].length

\* C12: attacking an attacked cell again returns 'already attacked' and
\* changes neither the hits of the ship under it nor the attacked set, at
\* every repetition.
C12_ReattackChangesNothing ==
  [][(ret'.op = "receiveAttack" /\ isAttacked(player1Board, ret'.x, ret'.y))
       => /\ ret'.result = "already attacked"
          /\ player1Board' = player1Board]_vars

\* C12 witness: a cell under a ship that was hit there has been attacked again.
C12_ReattackedHitCell ==
  /\ ret.op = "receiveAttack" /\ ret.result = "already attacked"
  /\ isAttacked(player1Board, ret.x, ret.y)
  /\ getShipAt(player1Board, ret.x, ret.y) # 0
  /\ player1Board.ships[getShipAt(player1Board, ret.x, ret.y)].hits > 0

\* The cells (x,y)...(x,y+L-1) when horizontal, (x,y)...(x+L-1,y) when vertical.
ClaimedFootprint(x, y, orientation, L) ==
  IF orientation = "horizontal"
    THEN {<<x, y + i>> : i \in 0..(L - 1)}
    ELSE {<<x + i, y>> : i \in 0..(L - 1)}

\* C13: a successful placeShip of a ship of length L at (x,y) occupies
\* exactly the L cells of its footprint, changes no other cell and appends
\* the ship once to the ship list.
C13_PlacementFootprint ==
  [][(ret'.op = "placeShip" /\ ret'.result = "ok")
       => /\ ClaimedFootprint(ret'.x, ret'.y, ret'.orientation, SHIP_TYPES[ret'.typeKey])
               \subseteq Cells
          /\ \A c \in Cells :
               player1Board'.grid[c] =
                 IF c \in ClaimedFootprint(ret'.x, ret'.y, ret'.orientation,
                                           SHIP_TYPES[ret'.typeKey])
                   THEN Len(player1Board.ships) + 1
                   ELSE player1Board.grid[c]
          /\ player1Board'.ships = Append(player1Board.ships, Ship(ret'.typeKey))
          /\ player1Board'.attackedCoordinates = player1Board.attackedCoordinates]_vars

\* C13 witness: a second ship has been placed vertically next to a first one.
C13_SecondShipVertical ==
  /\ ret.op = "placeShip" /\ ret.result = "ok" /\ ret.orientation = "vertical"
  /\ Len(player1Board.ships) = 2
  /\ player1Board.grid[<<ret.x + 1, ret.y>>] = 2

\* C14: placeShip fails with 'Ship placement out of bounds' whenever a cell
\* of the footprint lies outside the grid (a negative anchor coordinate and an
\* anchor row or column >= 10 included), and the board is unchanged.
C14_OutOfBoundsRejected ==
  [][(ret'.op = "placeShip"
        /\ ~(ClaimedFootprint(ret'.x, ret'.y, ret'.orientation, SHIP_TYPES[ret'.typeKey])
               \subseteq Cells))
       => /\ ret'.result = "Ship placement out of bounds"
          /\ player1Board' = player1Board]_vars

\* C15: placeShip fails with 'Ships cannot overlap' whenever a cell of the
\* in-bounds footprint is occupied, and the rejected call writes no grid cell
\* and leaves the ship list and every ship's hits as they were.
C15_OverlapRejected ==
  [][(ret'.op = "placeShip"
        /\ ClaimedFootprint(ret'.x, ret'.y, ret'.orientation, SHIP_TYPES[ret'.typeKey])
             \subseteq Cells
        /\ \E c \in ClaimedFootprint(ret'.x, ret'.y, ret'.orientation,
                                     SHIP_TYPES[ret'.typeKey]) :
             player1Board.grid[c] # 0)
       => /\ ret'.result = "Ships cannot overlap"
          /\ player1Board'.grid = player1Board.grid
          /\ player1Board'.ships = player1Board.ships
          /\ player1Board'.attackedCoordinates = player1Board.attackedCoordinates]_vars

\* C15 witness: a placement was rejected whose anchor cell is free and whose
\* footprint meets, further on, a ship that has been hit.
C15_OverlapPastAnchor ==
  /\ ret.op = "placeShip" /\ ret.result = "Ships cannot overlap"
  /\ isValidCoordinate(ret.x, ret.y)
  /\ player1Board.grid[<<ret.x, ret.y>>] = 0
  /\ \E c \in ClaimedFootprint(ret.x, ret.y, ret.orientation, SHIP_TYPES[ret.typeKey])
              \cap Cells :
       /\ player1Board.grid[c] # 0
       /\ player1Board.ships[player1Board.grid[c]].hits > 0

\* C16: allShipsSunk is false on a board without ships, and on every board
\* it is true exactly when a ship has been placed and every placed ship has
\* as many hits as cells.
C16_AllShipsSunkIff ==
  /\ (Len(player1Board.ships) = 0 => ~allShipsSunk(player1Board))
  /\ allShipsSunk(player1Board)
       <=> /\ Len(player1Board.ships) >= 1
           /\ \A i \in 1..Len(player1Board.ships) :
                player1Board.ships[i].hits >= player1Board.ships[i].length

\* C16 witness: the only ship of the board has been sunk by attacks.
C16_OnlyShipSunk ==
  /\ ret.op = "receiveAttack" /\ ret.result = "sunk"
  /\ Len(player1Board.ships) = 1
  /\ allShipsSunk(player1Board)

MinOf(a, b) == IF a <= b THEN a ELSE b

\* C17: after n calls of hit() on a ship of length L, getHits() = min(n, L)
\* and isSunk() holds exactly when n >= L; the hit count never exceeds L and
\* never decreases.
C17_HitsAreCapped ==
  /\ [](ret.op \in {"Ship", "hit"}
          => /\ getHits(ret.ship) = MinOf(ret.calls, ret.ship.length)
             /\ isSunk(ret.ship) <=> ret.calls >= ret.ship.length
             /\ getHits(ret.ship) <= ret.ship.length)
  /\ [][(ret'.op = "hit") => getHits(ret'.ship) >= getHits(ret.ship)]_vars

\* C17 witness: hit() has been called more often than the ship has cells.
C17_HitBeyondLength ==
  /\ ret.op = "hit"
  /\ ret.calls > ret.ship.length
  /\ isSunk(ret.ship)

\* C18: for a computer player generateAttack never returns a coordinate
\* already attacked on the target board, in hunt mode as in random mode.
C18_GeneratedIsUnattacked ==
  [][(ret'.op = "generateAttack")
       => /\ isValidCoordinate(ret'.x, ret'.y)
          /\ ~isAttacked(player1Board, ret'.x, ret'.y)]_vars

\* C18 witness: in hunt mode the head of the queue, (4,5), had been attacked
\* in the meantime and the next target, (6,5), was generated.
C18_SkippedAttackedTarget ==
  /\ ret.op = "generateAttack" /\ ret.x = 6 /\ ret.y = 5
  /\ player2.isHunting
  /\ player2.hitHistory = << <<5, 5>> >>
  /\ isAttacked(player1Board, 4, 5)

\* The orthogonal neighbours of (x, y) that are in bounds and not attacked on b.
OpenNeighbours(x, y, b) ==
  {c \in Cells : /\ (c[1] - x) * (c[1] - x) + (c[2] - y) * (c[2] - y) = 1
                 /\ c \notin b.attackedCoordinates}

\* C19: after the computer's first hit (hit history empty before it) at
\* (x,y), isHunting is true and targetQueue holds exactly the orthogonal
\* neighbours of (x,y) that are in bounds and not attacked, each once; the
\* attack generated next is one of them.
C19_FirstHitSeedsNeighbours ==
  /\ [][(ret'.op = "makeAttack" /\ ret'.result = "hit" /\ player2.hitHistory = <<>>)
          => /\ player2'.isHunting
             /\ {player2'.targetQueue[i] : i \in 1..Len(player2'.targetQueue)}
                  = OpenNeighbours(ret'.x, ret'.y, player1Board')
             /\ Len(player2'.targetQueue)
                  = Cardinality(OpenNeighbours(ret'.x, ret'.y, player1Board'))]_vars
  /\ [][(ret.op = "makeAttack" /\ ret.result = "hit" /\ Len(player2.hitHistory) = 1
           /\ ret'.op = "generateAttack")
          => <<ret'.x, ret'.y>> \in OpenNeighbours(ret.x, ret.y, player1Board)]_vars

\* C19 witness: after a first hit at (5,5), with the neighbour (4,5) attacked
\* before it, the attack generated next is (6,5).
C19_GeneratedNeighbourOfFirstHit ==
  /\ ret.op = "generateAttack" /\ ret.x = 6 /\ ret.y = 5
  /\ player2.hitHistory = << <<5, 5>> >>
  /\ player2.targetQueue = << <<5, 4>>, <<5, 6>> >>
  /\ player1Board.attackedCoordinates = {<<4, 5>>, <<5, 5>>}

\* C20: after a second hit establishing a horizontal line (hits at (r,c) then
\* (r,c+1)), every attack the computer generates until the ship sinks is in
\* row r at column c-1 or c+2.  Only the attacks generated right after an
\* attack was made are looked at, so that every generated attack was made.
C20_HuntStaysAtLineEnds ==
  [][(/\ ret'.op = "generateAttack"
      /\ ret.op = "makeAttack"
      /\ Len(player2.hitHistory) >= 2
      /\ player2.hitHistory[2] = <<player2.hitHistory[1][1], player2.hitHistory[1][2] + 1>>)
       => /\ ret'.x = player2.hitHistory[1][1]
          /\ ret'.y \in {player2.hitHistory[1][2] - 1, player2.hitHistory[1][2] + 2}]_vars

\* No targeting state: not hunting, nothing queued, no hit remembered.
TargetingCleared(p) ==
  /\ ~p.isHunting
  /\ p.targetQueue = <<>>
  /\ p.hitHistory = <<>>
  /\ p.huntDirection = <<>>
  /\ p.lastHit = <<>>

\* C21: when the computer's attack returns 'sunk' its targeting state is
\* cleared entirely, and the attack generated next is a random unattacked
\* cell, the targeting state staying cleared.
C21_SunkClearsTargeting ==
  /\ [][(ret'.op = "makeAttack" /\ ret'.result = "sunk") => TargetingCleared(player2')]_vars
  /\ [][(ret.op = "makeAttack" /\ ret.result = "sunk" /\ ret'.op = "generateAttack")
          => /\ <<ret'.x, ret'.y>> \in HuntRandomCells
             /\ ~isAttacked(player1Board, ret'.x, ret'.y)
             /\ TargetingCleared(player2')]_vars

\* C21 witness: the destroyer in the corner was sunk with the second hit and
\* a random cell far from it, (9,9), was generated afterwards.
C21_RandomAfterSunk ==
  /\ ret.op = "generateAttack" /\ ret.x = 9 /\ ret.y = 9
  /\ Len(player1Board.ships) = 2
  /\ isSunk(player1Board.ships[2])
  /\ player2.score = 2
  /\ TargetingCleared(player2)

\* C22: the score grows by exactly 1 on an attack whose outcome is 'hit' or
\* 'sunk', is unchanged on 'miss', 'already attacked' and a failed attack,
\* and otherwise only changes through resetScore.
C22_ScoreCountsHits ==
  [][IF ret'.op = "makeAttack"
       THEN player2'.score = player2.score
                               + (IF ret'.result \in {"hit", "sunk"} THEN 1 ELSE 0)
     ELSE IF ret'.op = "resetScore"
       THEN player2'.score = 0
     ELSE player2'.score = player2.score]_vars

\* C22 witness: three attacks scored (two hits on the ship in row 5 and one
\* in the corner), a fourth sank the destroyer.
C22_ScoredOnSunk ==
  /\ ret.op = "makeAttack" /\ ret.result = "sunk"
  /\ player2.score = 4

\* C23: the computer's targetQueue never holds a coordinate twice.
C23_QueueHasNoDuplicates ==
  \A i, j \in 1..Len(player2.targetQueue) :
    i # j => player2.targetQueue[i] # player2.targetQueue[j]

\* C24: after a makeAttack or a generateAttack of the computer player has
\* completed, targetQueue holds no coordinate that is attacked on the board
\* it attacks.
C24_QueueHoldsNoAttackedCell ==
  ret.op \in {"makeAttack", "generateAttack"}
    => \A i \in 1..Len(player2.targetQueue) :
         ~isAttacked(player1Board, player2.targetQueue[i][1], player2.targetQueue[i][2])

\* C25: all coordinates in the computer's hitHistory are cells of one and
\* the same ship of the target board, and that ship is not sunk.
C25_HistoryIsOneShip ==
  \A i \in 1..Len(player2.hitHistory) :
    /\ getShipAt(player1Board, player2.hitHistory[i][1], player2.hitHistory[i][2]) # 0
    /\ getShipAt(player1Board, player2.hitHistory[i][1], player2.hitHistory[i][2])
         = getShipAt(player1Board, player2.hitHistory[1][1], player2.hitHistory[1][2])
    /\ ~isSunk(player1Board.ships[getShipAt(player1Board, player2.hitHistory[i][1],
                                            player2.hitHistory[i][2])])

\* C26: when the computer's second hit shares neither row nor column with the
\* first, hitHistory restarts at the new hit and targetQueue is re-seeded
\* with the new hit's in-bounds, unattacked orthogonal neighbours.
C26_StrayHitIsFreshAnchor ==
  [][(/\ ret'.op = "makeAttack" /\ ret'.result = "hit"
      /\ Len(player2.hitHistory) = 1
      /\ player2.hitHistory[1][1] # ret'.x
      /\ player2.hitHistory[1][2] # ret'.y)
       => /\ player2'.hitHistory = << <<ret'.x, ret'.y>> >>
          /\ {player2'.targetQueue[i] : i \in 1..Len(player2'.targetQueue)}
               = OpenNeighbours(ret'.x, ret'.y, player1Board')]_vars

\* C27: generateAttack called on a hunting computer whose targetQueue is empty
\* or holds attacked cells only falls back to random search and clears the
\* hunting flags: isHunting is false, hitHistory and the hunt direction are
\* cleared on return.
C27_EmptyQueueEndsHunt ==
  [][(/\ ret'.op = "generateAttack"
      /\ player2.isHunting
      /\ Len(NotAttacked(player2.targetQueue, player1Board)) = 0)
       => /\ ~player2'.isHunting
          /\ player2'.hitHistory = <<>>
          /\ player2'.huntDirection = <<>>]_vars

\* C28: a 'miss' or 'already attacked' outcome of the computer's makeAttack
\* while hunting changes none of isHunting, hitHistory, hunt direction,
\* targetQueue and score.
C28_MissKeepsTargeting ==
  [][(/\ ret'.op = "makeAttack"
      /\ ret'.result \in {"miss", "already attacked"}
      /\ player2.isHunting)
       => player2' = player2]_vars

\* C28 witness: the computer missed at (4,5) while hunting around its hit at
\* (5,5), with targets still queued.
C28_MissedWhileHunting ==
  /\ ret.op = "makeAttack" /\ ret.result = "miss" /\ ret.x = 4 /\ ret.y = 5
  /\ player2.isHunting
  /\ player2.hitHistory = << <<5, 5>> >>
  /\ Len(player2.targetQueue) > 0

\* C29: a human player's targeting state never changes: after any sequence
\* of makeAttack and generateAttack calls, with any outcomes, isHunting is
\* false and targetQueue, hitHistory and lastHit are empty.
C29_HumanHasNoTargeting ==
  /\ player1.type = "human" => TargetingCleared(player1)
  /\ player2.type = "human" => TargetingCleared(player2)

\* C29 witness: a human player has hit twice and sunk a ship, and has had an
\* attack generated afterwards.
C29_HumanAfterHits ==
  /\ player2.type = "human"
  /\ ret.op = "generateAttack"
  /\ player2.score >= 3
  /\ \E i \in 1..Len(player1Board.ships) : isSunk(player1Board.ships[i])

\* C30: a computer attack deferred by the timer of handleBoardAttack never
\* acts on a later game: when resetGame ran between the scheduling of the
\* timer and its firing, the callback changes no board, score, turn, phase
\* or winner, whatever was called in between.
C30_StaleTimerIsInert ==
  [][(timers' < timers /\ staleTimers > 0) => UNCHANGED gameVars]_vars

\* The cells of board b that ship number k occupies.
CellsOf(b, k) == {c \in Cells : b.grid[c] = k}

\* Ship number k of board b lies on one line of consecutive cells, as many as
\* its length.
LiesInLine(b, k) ==
  \E c \in CellsOf(b, k) : \E o \in Orientations :
    CellsOf(b, k) = ClaimedFootprint(c[1], c[2], o, b.ships[k].length)

\* No cell next to a ship, diagonals included, belongs to another ship.
NoContact(b) ==
  \A c \in {d \in Cells : b.grid[d] # 0} :
    \A dx \in (0 - 1)..1 : \A dy \in (0 - 1)..1 :
      <<c[1] + dx, c[2] + dy>> \in Cells
        => b.grid[<<c[1] + dx, c[2] + dy>>] \in {0, b.grid[c]}

\* C31: after placeShipsRandomly has completed on a freshly reset board, the
\* board holds the five fleet kinds once each (17 occupied cells), every ship
\* lies fully in bounds, no two ships overlap and no two ships touch, not
\* even diagonally.
C31_RandomFleetWellFormed ==
  (ret.op \in PlacingOps \cup {"shuffleShips"}
     /\ Len(player1Board.ships) = Len(ShipTypeKeys))
    => /\ \A k \in 1..Len(ShipTypeKeys) :
            /\ player1Board.ships[k] = Ship(ShipTypeKeys[k])
            /\ LiesInLine(player1Board, k)
       /\ Cardinality({c \in Cells : player1Board.grid[c] # 0}) = 17
       /\ \A c \in Cells : player1Board.grid[c] \in 0..Len(ShipTypeKeys)
       /\ NoContact(player1Board)

\* C31 witness: shuffleShips has completed with a fleet that holds a vertical
\* ship.
C31_ShuffledWithVertical ==
  /\ ret.op = "shuffleShips" /\ ret.result = "ok"
  /\ Len(player1Board.ships) = Len(ShipTypeKeys)
  /\ \E c \in Cells : /\ c[1] < GRID_SIZE - 1
                      /\ player1Board.grid[c] # 0
                      /\ player1Board.grid[<<c[1] + 1, c[2]>>] = player1Board.grid[c]

\* C32: the placement loop terminates: for every ship of the fleet and every
\* arrangement of the ships placed before it, some draw (row, col,
\* orientation) passes the checks, and under a fair generator every ship
\* is eventually placed and shuffleShips returns.
C32_PlacementLoopTerminates ==
  /\ []((ret.op \in PlacingOps /\ Len(player1Board.ships) < Len(ShipTypeKeys))
          => \E c \in AllPlacements :
               Passes(player1Board, ShipTypeKeys[Len(player1Board.ships) + 1], c))
  /\ (ret.op = "resetBoard") ~> (ret.op = "shuffleShips")

\* C32 witness: four ships are placed and a draw for the destroyer has just
\* been rejected.
C32_DestroyerDrawRejected ==
  /\ ret.op = "placeShip" /\ ret.result # "ok"
  /\ ret.typeKey = "destroyer"
  /\ Len(player1Board.ships) = 4

\* No cell of board nb holds a ship that it did not hold on board b.
NoShipAdded(b, nb) == \A c \in Cells : nb.grid[c] # 0 => nb.grid[c] = b.grid[c]

\* C33: no ship is added to a board while the game is in the playing phase.
C33_NoPlacementWhilePlaying ==
  [][gameState = "playing"
       => /\ NoShipAdded(player1Board, player1Board')
          /\ NoShipAdded(player2Board, player2Board')]_vars

\* C34: while the game is in the playing phase each board's attacked set only
\* grows: no operation other than resetGame removes a coordinate from it.
C34_AttackedSetGrows ==
  [][(gameState = "playing" /\ ret'.op # "resetGame")
       => /\ player1Board.attackedCoordinates \subseteq player1Board'.attackedCoordinates
          /\ player2Board.attackedCoordinates \subseteq player2Board'.attackedCoordinates]_vars

\* The outcome the step's operation returned was produced by makeGameAttack.
CompletedAttack == ret'.op \in AttackOps /\ ret'.result \in Outcomes

\* C35: turnCount grows by one with every makeGameAttack that returns an
\* outcome, is set to 0 by resetGame and is changed by nothing else, so that
\* it counts the completed attacks since the game was created or last reset.
C35_TurnCountCountsAttacks ==
  [][turnCount' = IF ret'.op = "resetGame" THEN 0
                  ELSE IF CompletedAttack THEN turnCount + 1
                  ELSE turnCount]_vars

\* C36: an attack whose outcome is 'already attacked' consumes the turn like
\* a miss (the current player switches, turnCount grows by one) and changes
\* neither board (cells, ships, attacked sets) nor either player's score.
C36_RepeatedAttackPasses ==
  [][(ret'.op \in AttackOps /\ ret'.result = "already attacked")
       => /\ currentPlayer' = 3 - currentPlayer
          /\ turnCount' = turnCount + 1
          /\ gameState' = "playing"
          /\ player1Board' = player1Board /\ player2Board' = player2Board
          /\ player1'.score = player1.score /\ player2'.score = player2.score]_vars

\* C36 witness: player 1 has just repeated a coordinate that was a hit, and
\* the turn went to player 2 with all three attacks counted.
C36_RepeatedHitPassed ==
  /\ ret.op = "makeGameAttack" /\ ret.result = "already attacked"
  /\ player2Board.grid[<<ret.x, ret.y>>] # 0
  /\ currentPlayer = 2 /\ lastAttacker = 1 /\ turnCount = 3
  /\ player1.score = 1

\* C37: an attack made through generateComputerAttack never has the outcome
\* 'already attacked', whichever of the two players is the computer.
C37_GeneratedAttackIsFresh ==
  [][ret'.op \in {"generateComputerAttack", "timer"}
       => ret'.result # "already attacked"]_vars

\* C38: whenever the game is playing and the current player is a computer,
\* the board generateAttack is given (player 1's board) has an unattacked
\* cell, so that its reject-and-resample loop terminates.
C38_TargetHasUnattackedCell ==
  (gameState = "playing" /\ CurrentPlayerOf(G).type = "computer")
    => \E c \in Cells : ~isAttacked(player1Board, c[1], c[2])

\* The attacked cells of board b that hold a ship.
HitCells(b) == {c \in Cells : b.grid[c] # 0 /\ isAttacked(b, c[1], c[2])}

\* C39: in every state each player's score is the number of attacked cells
\* holding a ship on the opponent's board.
C39_ScoreCountsHitCells ==
  /\ player1.score = Cardinality(HitCells(player2Board))
  /\ player2.score = Cardinality(HitCells(player1Board))

\* C40: on a board, each placed ship's hit count is the number of attacked
\* cells among the cells it occupies.
C40_HitsCountAttackedCells ==
  \A k \in 1..Len(player1Board.ships) :
    getHits(player1Board.ships[k])
      = Cardinality({c \in CellsOf(player1Board, k) : isAttacked(player1Board, c[1], c[2])})

====
